---- MODULE Spec2Model ----
(***************************************************************************)
(* Model of scripts/fetch_games.py: the play-by-play reducers              *)
(* (calculate_plus_minus, calculate_second_chance_pts, the lead summary    *)
(* and the game-flow lead series of generate_game_page), the odds cache    *)
(* (fetch_game_odds) and the update gate of main.                          *)
(*                                                                         *)
(* Every reducer is a loop over the play list.  One action of the model    *)
(* is one iteration of that loop on one play; the play is drawn from a     *)
(* small set of dicts, so a behaviour of the model is one run of the       *)
(* function over one play list of bounded length.                          *)
(*                                                                         *)
(* A dict is a record with a field per key that the code reads, a field    *)
(* `keys' (the keys the dict has) and a field `nulls' (the keys whose      *)
(* value is JSON null).  A text is a sequence of words; `x in text' is     *)
(* containment of a contiguous run of words.                               *)
(***************************************************************************)
EXTENDS Integers, Sequences, FiniteSets, TLC

VARIABLES
    \* calculate_plus_minus
    pm_pc,              \* "loop" | "returned" | "raised"
    plus_minus,         \* athlete id -> running plus/minus
    on_court,           \* team id -> set of athlete ids on court
    prev_home_score,
    prev_away_score,
    play,               \* the play of the last iteration
    on_court_before,    \* on_court at the start of the last iteration
    swap_before,        \* SwapOf the iteration before the last
    sub_seen,           \* some play so far was a substitution play
    pm_n,               \* plays consumed
    balanced,           \* history: at every change of the score so far both teams
                        \* had as many rostered players on court
    removed,            \* history: the players a substitution took off the court
    \* calculate_second_chance_pts
    sc_pc,              \* "loop" | "returned"
    home_2ch,
    away_2ch,
    second_chance_team, \* "home" | "away" | "none"
    sc_play,            \* the play p of the last iteration
    home_pts,           \* sum of scoreValue over the home team's scoring plays
    away_pts,           \* sum of scoreValue over the away team's scoring plays
    orb_seen,           \* some play's type contained "Offensive Rebound"
    sc_window,          \* history: the teams with an offensive rebound behind them
                        \* and no play since that ends a second chance
    sc_n,               \* plays consumed
    \* generate_game_page: the lead summary
    usc_is_home,
    lead_pc,            \* "loop" | "done"
    acc,                \* lead_changes, times_tied, usc_biggest_lead,
                        \* opp_biggest_lead, last_leader, prev_leader
    twin,               \* the same over the list with tied plays inserted
    lead_play,          \* the scoring play of the last iteration
    lead_n,             \* scoring plays consumed
    lead_hist,          \* history: the lead after each scoring play consumed
    ties_inserted,      \* tied plays inserted into the twin's list
    \* generate_game_page: the game-flow lead series
    flow_pc,            \* "record" | "filled"
    num_periods,
    is_live,
    game_period,
    game_clock,
    lead_at_col,        \* column -> lead, for the columns with a record
    filled_lead,        \* the densified series; << >> is None, <<v>> is v
    flow_n,             \* scoring plays consumed
    usc_rows,           \* row -> the line of glyphs of our team's row
    opp_rows,           \* row -> the line of glyphs of the opponent's row
    flow_play,          \* the scoring play of the last iteration
    flow_old,           \* history: the record the last play replaced, << >> if none
    flow_chrono,        \* history: the plays so far came in chronological order
    \* fetch_game_odds
    cache_file,         \* odds_cache.json: [state, data]
    api_key,            \* ODDS_API_KEY is set
    api_calls,          \* calls of the odds API so far
    file_writes,        \* writes of the cache file so far
    odds_event,         \* event_id of the last call
    odds_result,        \* what the last call returned; << >> is None
    odds_calls,         \* calls of fetch_game_odds so far
    odds_answer,        \* history: what the odds API answered to the last call,
                        \* NoAnswer if it was not asked
    \* main
    main_pc,            \* "gate" | "exited" | "generate" | "done"
    force_update,
    scoreboard,         \* team id -> state of its game on the scoreboard
    schedules,          \* team id -> the events of its schedule
    exit_status,
    pages               \* the pages written so far

pmvars == <<pm_pc, plus_minus, on_court, prev_home_score, prev_away_score,
            play, on_court_before, swap_before, sub_seen, pm_n, balanced, removed>>

scvars == <<sc_pc, home_2ch, away_2ch, second_chance_team, sc_play, home_pts, away_pts,
            orb_seen, sc_n, sc_window>>

leadvars == <<usc_is_home, lead_pc, acc, twin, lead_play, lead_n, lead_hist,
              ties_inserted>>

flowvars == <<flow_pc, num_periods, is_live, game_period, game_clock, lead_at_col,
              filled_lead, flow_n, usc_rows, opp_rows, flow_play, flow_old,
              flow_chrono>>

oddsvars == <<cache_file, api_key, api_calls, file_writes, odds_event, odds_result,
              odds_calls, odds_answer>>

mainvars == <<main_pc, force_update, scoreboard, schedules, exit_status, pages>>

vars == <<pmvars, scvars, leadvars, flowvars, oddsvars, mainvars>>

----------------------------------------------------------------------------
(* Bounds                                                                  *)

\* longest play list fed to calculate_plus_minus
MaxPlays == 3

\* longest play list fed to calculate_second_chance_pts
MaxScPlays == 4

\* longest list of scoring plays fed to the lead summary
MaxLeadPlays == 3

\* most tied plays inserted into the twin's list
MaxTies == 2

\* longest list of scoring plays fed to the game-flow chart
MaxFlowPlays == 2

\* most calls of fetch_game_odds in a run
MaxOddsCalls == 3

----------------------------------------------------------------------------
(* Texts                                                                   *)

RECURSIVE SumOver(_, _)
\* sum of f[x] over the finite set S
SumOver(f, S) ==
    IF S = {} THEN 0
    ELSE LET x == CHOOSE y \in S : TRUE IN f[x] + SumOver(f, S \ {x})

\* str.lower() on one word
LowerWord(w) ==
    CASE w = "Substitution" -> "substitution"
      [] w = "Subbing"      -> "subbing"
      [] w = "Enters"       -> "enters"
      [] w = "Out"          -> "out"
      [] OTHER              -> w

\* str.lower()
Lower(text) == [i \in 1..Len(text) |-> LowerWord(text[i])]

\* `phrase in text'
Contains(text, phrase) ==
    \E i \in 1..(Len(text) - Len(phrase) + 1) :
        SubSeq(text, i, i + Len(phrase) - 1) = phrase

\* dict.get(key, default) for a key whose value is not null
Get(d, key, default) == IF key \in d.keys THEN d[key] ELSE default

----------------------------------------------------------------------------
(* calculate_plus_minus: the box score                                     *)

home_team_id == "H"
away_team_id == "A"

Athlete(id, starter) == [id |-> id, starter |-> starter]

\* boxscore["players"]: per team, statistics[0]["athletes"]; an athlete
\* entry without an id has id "".
boxscore ==
    << [team |-> "H", statistics |-> TRUE,
        athletes |-> << Athlete("h1", TRUE), Athlete("h2", TRUE), Athlete("h3", TRUE),
                        Athlete("h4", TRUE), Athlete("h5", TRUE), Athlete("h6", FALSE),
                        Athlete("", FALSE) >>],
       [team |-> "A", statistics |-> TRUE,
        athletes |-> << Athlete("a1", TRUE), Athlete("a2", TRUE), Athlete("a3", TRUE),
                        Athlete("a4", TRUE), Athlete("a5", TRUE), Athlete("a6", FALSE) >>],
       [team |-> "N", statistics |-> FALSE, athletes |-> << >>] >>

\* the team entries that have statistics
TrackedEntries == {i \in 1..Len(boxscore) : boxscore[i].statistics}

TrackedTeams == {boxscore[i].team : i \in TrackedEntries}

EntryOf(team_id) == CHOOSE i \in TrackedEntries : boxscore[i].team = team_id

\* starters = [a.athlete.id for a in athletes if a.starter]
Starters(team_data) ==
    {team_data.athletes[i].id : i \in {j \in 1..Len(team_data.athletes) :
                                           team_data.athletes[j].starter}}

\* the ids given a plus_minus entry: every athlete with a truthy id
Rostered(team_data) ==
    {team_data.athletes[i].id : i \in 1..Len(team_data.athletes)} \ {""}

RosterOf(team_id) == Rostered(boxscore[EntryOf(team_id)])

AllRostered == UNION {RosterOf(t) : t \in TrackedTeams}

InitOnCourt == [t \in TrackedTeams |-> Starters(boxscore[EntryOf(t)])]

\* plus_minus entries made for the starters alone
InitPlusMinus_StartersOnly ==
    [a \in AllRostered \cap UNION {InitOnCourt[t] : t \in TrackedTeams} |-> 0]

\* plus_minus[athlete_id] = 0 for every athlete of the box score (lines 171-174)
InitPlusMinus == [a \in AllRostered |-> 0]

----------------------------------------------------------------------------
(* calculate_plus_minus: the plays                                         *)

PMKeys == {"type", "text", "team", "participants", "homeScore", "awayScore"}

MkPlay(keys, nulls, type, text, team, participants, hs, as) ==
    [keys |-> keys, nulls |-> nulls, type |-> type, text |-> text, team |-> team,
     participants |-> participants, homeScore |-> hs, awayScore |-> as]

\* the value of `play' before the first iteration
NoPlay == MkPlay({}, {}, << >>, << >>, "", << >>, 0, 0)

TOut    == <<"X", "subbing", "out">>
TIn     == <<"Y", "Subbing", "in">>
TExits  == <<"X", "exits">>
TEnters == <<"Y", "Enters">>
TBoth   == <<"X", "subbing", "out", "Y", "subbing", "in">>
TOther  == <<"timeout">>

SubTexts == {TOut, TIn, TExits, TEnters, TBoth, TOther}

\* (keys, team, participants) of the substitution plays that name a rostered
\* first participant of a tracked team
SubSubjects ==
    { <<{"team", "participants"}, "H", <<"h5">> >>,
      <<{"team", "participants"}, "H", <<"h6">> >>,
      <<{"team", "participants"}, "H", <<"h5", "h6">> >>,
      <<{"team", "participants"}, "A", <<"a6">> >> }

\* substitution plays for an untracked team, of a player the box score does
\* not list, with a participant that has no athlete id (""), with no
\* participant, without team, without participants
OddSubjects ==
    { <<{"team", "participants"}, "Z", <<"h6">> >>,
      <<{"team", "participants"}, "H", <<"x9">> >>,
      <<{"team", "participants"}, "H", <<"">> >>,
      <<{"team", "participants"}, "H", << >> >>,
      <<{"participants"}, "", <<"h5">> >>,
      <<{"participants"}, "", <<"h6">> >>,
      <<{"team"}, "H", << >> >> }

\* (keys, homeScore, awayScore) after scores (ph, pa)
ScoreOptions(ph, pa) ==
    { <<{}, 0, 0>>,
      <<{"homeScore", "awayScore"}, ph, pa>>,
      <<{"homeScore", "awayScore"}, ph + 2, pa>>,
      <<{"homeScore", "awayScore"}, ph, pa + 3>>,
      <<{"homeScore"}, ph + 1, 0>> }

SubPlays(ph, pa) ==
    { MkPlay({"type", "text"} \cup s[1], {}, <<"Substitution">>,
             tx, s[2], s[3], 0, 0) :
        tx \in SubTexts, s \in SubSubjects }
    \cup
    { MkPlay({"type", "text", "homeScore", "awayScore"} \cup s[1], {},
             <<"Substitution">>, tx, s[2], s[3], ph + 2, pa) :
        tx \in {TOut, TIn}, s \in SubSubjects }
    \cup
    { MkPlay({"type", "text"} \cup s[1], {}, <<"Substitution">>,
             tx, s[2], s[3], 0, 0) :
        tx \in {TOut, TIn}, s \in OddSubjects }
    \cup
    { MkPlay({"type", "team", "participants"}, {}, <<"Substitution">>,
             << >>, "H", <<"h5">>, 0, 0) }

OtherPlays(ph, pa) ==
    { MkPlay(tk \cup {"text", "team"} \cup sc[1], {},
             IF tk = {} THEN << >> ELSE <<"JumpShot">>, TOther, "H", << >>,
             sc[2], sc[3]) :
        tk \in {{}, {"type"}}, sc \in ScoreOptions(ph, pa) }
    \cup
    { MkPlay({"type", "text", "team", "participants"}, {}, <<"JumpShot">>,
             TIn, "H", <<"h6">>, 0, 0) }

\* plays in which a key is present with the value null
NullPlays(ph, pa) ==
    { MkPlay({"type", "text", "team", "participants"}, {"team"}, <<"Substitution">>,
             TOut, "", <<"h5">>, 0, 0),
      MkPlay({"type", "text", "team", "participants"}, {"team"}, <<"JumpShot">>,
             TOther, "", << >>, 0, 0),
      MkPlay({"type", "text", "homeScore", "awayScore"}, {"homeScore"}, <<"JumpShot">>,
             TOther, "", << >>, 0, pa),
      MkPlay({"type", "text", "participants"}, {"participants"}, <<"Substitution">>,
             TOut, "", << >>, 0, 0) }

Plays(ph, pa) == SubPlays(ph, pa) \cup OtherPlays(ph, pa) \cup NullPlays(ph, pa)

----------------------------------------------------------------------------
(* calculate_plus_minus: one iteration                                     *)

play_type(p) == Lower(Get(p, "type", << >>))
play_text(p) == Lower(Get(p, "text", << >>))

\* line 185 with a play taken for a substitution by its text as well
IsSubstitution_ByText(p) ==
    Contains(play_type(p), <<"substitution">>) \/ Contains(play_text(p), <<"subbing">>)

\* line 185
IsSubstitution(p) == Contains(play_type(p), <<"substitution">>)

SubbingOut(p) == Contains(play_text(p), <<"subbing", "out">>)
                    \/ Contains(play_text(p), <<"exits">>)
SubbingIn(p)  == Contains(play_text(p), <<"subbing", "in">>)
                    \/ Contains(play_text(p), <<"enters">>)

\* homeScore and awayScore read as play["homeScore"], play["awayScore"]: a
\* KeyError on a play without them
Raises_KeyError(p) ==
    \/ p.nulls # {}
    \/ "homeScore" \notin p.keys
    \/ "awayScore" \notin p.keys

\* an operation on None: .get or .lower on a null type, text or team (the
\* team is read only in the substitution branch), or a subtraction with a
\* null score
Raises(p) ==
    \/ "type" \in p.nulls
    \/ "text" \in p.nulls
    \/ IsSubstitution(p) /\ "team" \in p.nulls
    \/ "homeScore" \in p.nulls
    \/ "awayScore" \in p.nulls

\* participants[0].athlete.id of a non-empty participants list
FirstParticipant(p) == Get(p, "participants", << >>)[1]

\* the substitution branch with `if' in place of `elif': a text with both
\* directions removes the first participant and adds them again
ApplySubstitution_IfIf(oc, p) ==
    LET participants == IF "participants" \in p.nulls THEN << >>
                        ELSE Get(p, "participants", << >>)
        team_id      == Get(p, "team", "")
        out          == IF SubbingOut(p)
                        THEN [oc EXCEPT ![team_id] = @ \ {participants[1]}] ELSE oc
    IN  IF IsSubstitution(p) /\ participants # << >> /\ team_id \in DOMAIN oc
           /\ participants[1] # ""
        THEN IF SubbingIn(p)
             THEN [out EXCEPT ![team_id] = @ \cup {participants[1]}]
             ELSE out
        ELSE oc

\* the substitution branch (lines 185-194)
ApplySubstitution(oc, p) ==
    LET participants == IF "participants" \in p.nulls THEN << >>
                        ELSE Get(p, "participants", << >>)
        team_id      == Get(p, "team", "")
    IN  IF IsSubstitution(p) /\ participants # << >> /\ team_id \in DOMAIN oc
           /\ participants[1] # ""
        THEN IF SubbingOut(p)
             THEN [oc EXCEPT ![team_id] = @ \ {participants[1]}]
             ELSE IF SubbingIn(p)
                  THEN [oc EXCEPT ![team_id] = @ \cup {participants[1]}]
                  ELSE oc
        ELSE oc

\* both branches of line 203 credit home_diff - away_diff
CreditOf_NoSwap(oc, athlete_id, home_diff, away_diff) ==
    SumOver([t \in DOMAIN oc |->
                IF athlete_id \in oc[t] THEN home_diff - away_diff ELSE 0],
            DOMAIN oc)

\* the team that has athlete_id on court, as the loop of lines 200-206 visits
\* it; an id on court for both teams is credited once per team
CreditOf(oc, athlete_id, home_diff, away_diff) ==
    SumOver([t \in DOMAIN oc |->
                IF athlete_id \in oc[t]
                THEN IF t = home_team_id THEN home_diff - away_diff
                     ELSE away_diff - home_diff
                ELSE 0],
            DOMAIN oc)

\* lines 199-206 with line 199 testing home_diff alone
Credit_HomeDiffOnly(pm, oc, home_diff, away_diff) ==
    IF home_diff # 0
    THEN [a \in DOMAIN pm |-> pm[a] + CreditOf(oc, a, home_diff, away_diff)]
    ELSE pm

\* lines 199-206
Credit(pm, oc, home_diff, away_diff) ==
    IF home_diff # 0 \/ away_diff # 0
    THEN [a \in DOMAIN pm |-> pm[a] + CreditOf(oc, a, home_diff, away_diff)]
    ELSE pm

\* <<team, X, Y>> when p is a substitution play of a tracked team whose text
\* holds both directions ("X subbing out, Y subbing in") and whose two
\* participants are X, on court before it, and Y, on the bench; << >> otherwise
SwapOf(p, before) ==
    LET participants == Get(p, "participants", << >>)
        team_id      == Get(p, "team", "")
    IN  IF /\ p.nulls = {}
           /\ IsSubstitution(p) /\ SubbingOut(p) /\ SubbingIn(p)
           /\ team_id \in DOMAIN before
           /\ Len(participants) = 2
           /\ participants[1] \in before[team_id]
           /\ participants[2] \in AllRostered \ before[team_id]
        THEN <<team_id, participants[1], participants[2]>>
        ELSE << >>

\* the players of team t on court that have a plus_minus entry (line 202)
RosteredOn(oc, t) == oc[t] \cap AllRostered

\* both teams have as many rostered players on court when the score changes
Balanced(oc, home_diff, away_diff) ==
    (home_diff # 0 \/ away_diff # 0) =>
        Cardinality(RosteredOn(oc, home_team_id)) = Cardinality(RosteredOn(oc, away_team_id))

\* the players that are on court in `before' and no more in oc
TakenOff(before, oc) == UNION {before[t] \ oc[t] : t \in DOMAIN before}

PMInit ==
    /\ pm_pc = "loop"
    /\ plus_minus = InitPlusMinus
    /\ on_court = InitOnCourt
    /\ prev_home_score = 0
    /\ prev_away_score = 0
    /\ play = NoPlay
    /\ on_court_before = InitOnCourt
    /\ swap_before = << >>
    /\ sub_seen = FALSE
    /\ pm_n = 0
    /\ balanced = TRUE
    /\ removed = {}

\* one iteration with the points credited (lines 196-206) before the
\* substitution branch (lines 185-194) runs
PMStep_CreditFirst(pl) ==
    /\ pm_pc = "loop"
    /\ pm_n < MaxPlays
    /\ ~Raises(pl)
    /\ LET home_score == Get(pl, "homeScore", prev_home_score)
           away_score == Get(pl, "awayScore", prev_away_score)
       IN  /\ on_court' = ApplySubstitution(on_court, pl)
           /\ plus_minus' = Credit(plus_minus, on_court, home_score - prev_home_score,
                                   away_score - prev_away_score)
           /\ prev_home_score' = home_score
           /\ prev_away_score' = away_score
           /\ balanced' = (balanced /\ Balanced(on_court, home_score - prev_home_score,
                                                away_score - prev_away_score))
           /\ removed' = removed \cup TakenOff(on_court, ApplySubstitution(on_court, pl))
    /\ play' = pl
    /\ swap_before' = SwapOf(play, on_court_before)
    /\ sub_seen' = (sub_seen \/ IsSubstitution(pl))
    /\ on_court_before' = on_court
    /\ pm_n' = pm_n + 1
    /\ UNCHANGED pm_pc
    /\ UNCHANGED <<scvars, leadvars, flowvars, oddsvars, mainvars>>

\* one iteration of `for play in plays' (lines 179-209)
PMStep(pl) ==
    /\ pm_pc = "loop"
    /\ pm_n < MaxPlays
    /\ ~Raises(pl)
    /\ LET home_score == Get(pl, "homeScore", prev_home_score)
           away_score == Get(pl, "awayScore", prev_away_score)
           oc         == ApplySubstitution(on_court, pl)
       IN  /\ on_court' = oc
           /\ plus_minus' = Credit(plus_minus, oc, home_score - prev_home_score,
                                   away_score - prev_away_score)
           /\ prev_home_score' = home_score
           /\ prev_away_score' = away_score
           /\ balanced' = (balanced /\ Balanced(oc, home_score - prev_home_score,
                                                away_score - prev_away_score))
           /\ removed' = removed \cup TakenOff(on_court, oc)
    /\ play' = pl
    /\ swap_before' = SwapOf(play, on_court_before)
    /\ sub_seen' = (sub_seen \/ IsSubstitution(pl))
    /\ on_court_before' = on_court
    /\ pm_n' = pm_n + 1
    /\ UNCHANGED pm_pc
    /\ UNCHANGED <<scvars, leadvars, flowvars, oddsvars, mainvars>>

\* an iteration that raises: the call ends without a result
PMRaise(pl) ==
    /\ pm_pc = "loop"
    /\ pm_n < MaxPlays
    /\ Raises(pl)
    /\ pm_pc' = "raised"
    /\ play' = pl
    /\ swap_before' = SwapOf(play, on_court_before)
    /\ sub_seen' = (sub_seen \/ IsSubstitution(pl))
    /\ pm_n' = pm_n + 1
    /\ UNCHANGED <<plus_minus, on_court, prev_home_score, prev_away_score,
                   on_court_before, balanced, removed>>
    /\ UNCHANGED <<scvars, leadvars, flowvars, oddsvars, mainvars>>

\* `return plus_minus' (line 211) at the end of the play list
PMReturn ==
    /\ pm_pc = "loop"
    /\ pm_pc' = "returned"
    /\ UNCHANGED <<plus_minus, on_court, prev_home_score, prev_away_score,
                   play, on_court_before, swap_before, sub_seen, pm_n, balanced,
                   removed>>
    /\ UNCHANGED <<scvars, leadvars, flowvars, oddsvars, mainvars>>

PMNext ==
    \/ \E pl \in Plays(prev_home_score, prev_away_score) : PMStep(pl)
    \/ \E pl \in Plays(prev_home_score, prev_away_score) : PMRaise(pl)
    \/ PMReturn

----------------------------------------------------------------------------
(* calculate_second_chance_pts (lines 1996-2045)                           *)

\* a play as calculate_second_chance_pts reads it; a team that is present
\* but null or empty has team ""
MkScPlay(keys, type, team, scoreValue, scoringPlay) ==
    [keys |-> keys, type |-> type, team |-> team, scoreValue |-> scoreValue,
     scoringPlay |-> scoringPlay]

NoScPlay == MkScPlay({}, << >>, "", 0, FALSE)

\* (keys, team): home, away, a third team, a null team, no team
ScHome   == <<{"team"}, "H">>
ScAway   == <<{"team"}, "A">>
ScThird  == <<{"team"}, "Z">>
ScNull   == <<{"team"}, "">>
ScNoTeam == <<{}, "">>

\* (keys, scoringPlay, scoreValue)
ScNoScore  == <<{}, FALSE, 0>>
ScMade(n)  == <<{"scoringPlay", "scoreValue"}, TRUE, n>>
ScMiss(n)  == <<{"scoringPlay", "scoreValue"}, FALSE, n>>

\* the type texts that line 2041 names, word by word, as the feed has them
ClearingTypes ==
    { <<"Defensive", "Rebound">>, <<"Lost", "Ball", "Turnover">>, <<"End", "Period">>,
      <<"Jumpball">>, <<"Dead", "Ball", "Rebound">>, <<"Steal">> }

ScPlaysOf(types, teams, scores) ==
    { MkScPlay((IF ty = << >> THEN {} ELSE {"type"}) \cup t[1] \cup sc[1],
               ty, t[2], sc[3], sc[2]) :
        ty \in types, t \in teams, sc \in scores }

\* the plays fed to the loop ("MadeFreeThrow" is the words Made, FreeThrow)
ScPlays ==
    ScPlaysOf({<<"Offensive", "Rebound">>},
              {ScHome, ScAway, ScThird, ScNull, ScNoTeam}, {ScNoScore, ScMade(1)})
    \cup ScPlaysOf(ClearingTypes, {ScHome, ScNoTeam},
                   {ScNoScore, ScMiss(3), ScMade(1)})
    \cup ScPlaysOf({<<"Defensive", "Rebound">>}, {ScAway}, {ScNoScore, ScMiss(3)})
    \cup ScPlaysOf({<<"Made", "FreeThrow">>}, {ScHome, ScAway},
                   {ScMade(1), ScMiss(1), ScMade(0)})
    \cup ScPlaysOf({<<"JumpShot">>}, {ScHome, ScAway, ScThird, ScNoTeam},
                   {ScMade(3), ScMiss(3)})
    \cup ScPlaysOf({<<"JumpShot">>, << >>}, {ScHome}, {ScMade(0), ScNoScore, ScMade(2)})
    \cup ScPlaysOf({<<"PersonalFoul">>, <<"offensive", "rebound">>}, {ScHome},
                   {ScNoScore, ScMiss(0)})

ptype(q) == Get(q, "type", << >>)
\* p.get("team", {}).get("id", "") if p.get("team") else ""
play_team_id(q) == Get(q, "team", "")
score_val(q) == Get(q, "scoreValue", 0)
is_scoring(q) == Get(q, "scoringPlay", FALSE)

\* line 2009 with any rebound taken for an offensive one
IsOffensiveRebound_AnyRebound(q) ==
    Contains(ptype(q), <<"Rebound">>) /\ play_team_id(q) # ""

\* line 2009
IsOffensiveRebound(q) ==
    Contains(ptype(q), <<"Offensive", "Rebound">>) /\ play_team_id(q) # ""

\* line 2018
IsMadeShot(q) ==
    is_scoring(q) /\ score_val(q) # 0 /\ score_val(q) > 0 /\ play_team_id(q) # ""

\* line 2033
IsMissedShot(q) == score_val(q) # 0 /\ ~is_scoring(q) /\ play_team_id(q) # ""

\* lines 2041-2042
IsClearing(q) ==
    \E x \in { <<"Defensive", "Rebound">>, <<"Turnover">>, <<"End", "Period">>,
               <<"Jumpball">>, <<"Dead", "Ball", "Rebound">>, <<"Steal">> } :
        Contains(ptype(q), x)

\* the points a made shot adds to the home total, whichever team shot
HomeCredit_AnyTeam(state, q) ==
    IF ~IsOffensiveRebound(q) /\ IsMadeShot(q) /\ state = "home"
    THEN score_val(q) ELSE 0

\* the points this play adds to home_2ch (lines 2019-2020)
HomeCredit(state, q) ==
    IF ~IsOffensiveRebound(q) /\ IsMadeShot(q) /\ state = "home"
       /\ play_team_id(q) = home_team_id
    THEN score_val(q) ELSE 0

\* the points this play adds to away_2ch (lines 2021-2022)
AwayCredit(state, q) ==
    IF ~IsOffensiveRebound(q) /\ IsMadeShot(q)
       /\ ~(state = "home" /\ play_team_id(q) = home_team_id)
       /\ state = "away" /\ play_team_id(q) = away_team_id
    THEN score_val(q) ELSE 0

\* lines 2009-2043 with a made free throw ending the second chance too
NextState_FreeThrowClears(state, q) ==
    IF IsOffensiveRebound(q)
    THEN IF play_team_id(q) = home_team_id THEN "home"
         ELSE IF play_team_id(q) = away_team_id THEN "away"
         ELSE state
    ELSE IF IsMadeShot(q) THEN "none"
    ELSE IF IsMissedShot(q)
    THEN IF state = "home" /\ play_team_id(q) # home_team_id THEN "none"
         ELSE IF state = "away" /\ play_team_id(q) # away_team_id THEN "none"
         ELSE state
    ELSE IF IsClearing(q) THEN "none"
    ELSE state

\* lines 2009-2043 with every missed shot ending the second chance
NextState_MissClears(state, q) ==
    IF IsOffensiveRebound(q)
    THEN IF play_team_id(q) = home_team_id THEN "home"
         ELSE IF play_team_id(q) = away_team_id THEN "away"
         ELSE state
    ELSE IF IsMadeShot(q)
    THEN IF ~Contains(ptype(q), <<"FreeThrow">>) THEN "none" ELSE state
    ELSE IF IsMissedShot(q) THEN "none"
    ELSE IF IsClearing(q) THEN "none"
    ELSE state

\* lines 2009-2043 with every play that no branch takes ending the second
\* chance
NextState_OtherClears(state, q) ==
    IF IsOffensiveRebound(q)
    THEN IF play_team_id(q) = home_team_id THEN "home"
         ELSE IF play_team_id(q) = away_team_id THEN "away"
         ELSE state
    ELSE IF IsMadeShot(q)
    THEN IF ~Contains(ptype(q), <<"FreeThrow">>) THEN "none" ELSE state
    ELSE IF IsMissedShot(q)
    THEN IF state = "home" /\ play_team_id(q) # home_team_id THEN "none"
         ELSE IF state = "away" /\ play_team_id(q) # away_team_id THEN "none"
         ELSE state
    ELSE "none"

\* second_chance_team after the play (lines 2009-2043)
NextState(state, q) ==
    IF IsOffensiveRebound(q)
    THEN IF play_team_id(q) = home_team_id THEN "home"
         ELSE IF play_team_id(q) = away_team_id THEN "away"
         ELSE state
    ELSE IF IsMadeShot(q)
    THEN IF ~Contains(ptype(q), <<"FreeThrow">>) THEN "none" ELSE state
    ELSE IF IsMissedShot(q)
    THEN IF state = "home" /\ play_team_id(q) # home_team_id THEN "none"
         ELSE IF state = "away" /\ play_team_id(q) # away_team_id THEN "none"
         ELSE state
    ELSE IF IsClearing(q) THEN "none"
    ELSE state

\* the opponent of team t in the game
Opponent(t) == IF t = home_team_id THEN away_team_id ELSE home_team_id

\* q is an offensive rebound by team t
ReboundBy(q, t) ==
    Contains(Get(q, "type", << >>), <<"Offensive", "Rebound">>) /\ Get(q, "team", "") = t

\* q ends the second chance of team t as the plays are described: a made
\* basket other than a free throw, a missed shot by the other team, an
\* offensive rebound by the other team, or an event of the six clearing types
EndsChance(q, t) ==
    LET type  == Get(q, "type", << >>)
        team  == Get(q, "team", "")
        value == Get(q, "scoreValue", 0)
        made  == Get(q, "scoringPlay", FALSE)
    IN  \/ /\ made /\ value > 0 /\ team # ""
           /\ ~Contains(type, <<"Offensive", "Rebound">>)
           /\ ~Contains(type, <<"FreeThrow">>)
        \/ /\ ~made /\ value # 0 /\ team = Opponent(t)
           /\ ~Contains(type, <<"Offensive", "Rebound">>)
        \/ ReboundBy(q, Opponent(t))
        \/ \E x \in { <<"Defensive", "Rebound">>, <<"Turnover">>, <<"End", "Period">>,
                       <<"Jumpball">>, <<"Dead", "Ball", "Rebound">>, <<"Steal">> } :
               Contains(type, x)

\* the teams that have an offensive rebound behind them and no play since
\* that ends their second chance, after q
WindowAfter(window, q) ==
    {t \in {home_team_id, away_team_id} :
        ReboundBy(q, t) \/ (t \in window /\ ~EndsChance(q, t))}

SCInit ==
    /\ sc_pc = "loop"
    /\ home_2ch = 0
    /\ away_2ch = 0
    /\ second_chance_team = "none"
    /\ sc_play = NoScPlay
    /\ home_pts = 0
    /\ away_pts = 0
    /\ orb_seen = FALSE
    /\ sc_n = 0
    /\ sc_window = {}

\* one iteration of `for p in plays' (lines 2003-2043)
SCStep(q) ==
    /\ sc_pc = "loop"
    /\ sc_n < MaxScPlays
    /\ home_2ch' = home_2ch + HomeCredit(second_chance_team, q)
    /\ away_2ch' = away_2ch + AwayCredit(second_chance_team, q)
    /\ second_chance_team' = NextState(second_chance_team, q)
    /\ sc_play' = q
    /\ home_pts' = home_pts + (IF is_scoring(q) /\ play_team_id(q) = home_team_id
                               THEN score_val(q) ELSE 0)
    /\ away_pts' = away_pts + (IF is_scoring(q) /\ play_team_id(q) = away_team_id
                               THEN score_val(q) ELSE 0)
    /\ orb_seen' = (orb_seen \/ Contains(ptype(q), <<"Offensive", "Rebound">>))
    /\ sc_window' = WindowAfter(sc_window, q)
    /\ sc_n' = sc_n + 1
    /\ UNCHANGED sc_pc
    /\ UNCHANGED <<pmvars, leadvars, flowvars, oddsvars, mainvars>>

\* `return home_2ch, away_2ch' (line 2045)
SCReturn ==
    /\ sc_pc = "loop"
    /\ sc_pc' = "returned"
    /\ UNCHANGED <<home_2ch, away_2ch, second_chance_team, sc_play, home_pts, away_pts,
                   orb_seen, sc_n, sc_window>>
    /\ UNCHANGED <<pmvars, leadvars, flowvars, oddsvars, mainvars>>

SCNext ==
    \/ \E q \in ScPlays : SCStep(q)
    \/ SCReturn

----------------------------------------------------------------------------
(* generate_game_page: lead changes, times tied, biggest leads             *)
(* (lines 1897-1939).  The loop runs over scoring_plays, the plays whose   *)
(* scoringPlay is truthy (line 1754).                                      *)

\* a scoring play as the two loops over scoring_plays read it
MkScoring(keys, period, clock, hs, as) ==
    [keys |-> keys, period |-> period, clock |-> clock, homeScore |-> hs,
     awayScore |-> as]

NoScoring == MkScoring({}, 1, << >>, 0, 0)

\* cumulative scores of the plays
LeadScores == {0, 2, 3, 5}

LeadPlays ==
    { MkScoring({"homeScore", "awayScore"}, 1, << >>, h, a) :
        h \in LeadScores, a \in LeadScores }
    \cup { MkScoring({"homeScore"}, 1, << >>, 2, 0), MkScoring({"awayScore"}, 1, << >>, 0, 3),
           MkScoring({}, 1, << >>, 0, 0) }

\* lines 1906-1913 (and 1786-1812): the lead from our team's perspective
LeadOf(pl, ours_home) ==
    LET away_sc == Get(pl, "awayScore", 0)
        home_sc == Get(pl, "homeScore", 0)
    IN  IF ours_home THEN home_sc - away_sc ELSE away_sc - home_sc

Max2(x, y) == IF x >= y THEN x ELSE y
Min2(x, y) == IF x <= y THEN x ELSE y
\* abs() left out at line 1919
Abs_Identity(x) == x

\* abs() (line 1919)
Abs(x) == IF x < 0 THEN -x ELSE x

\* lines 1898-1903
InitAcc ==
    [lead_changes |-> 0, times_tied |-> 0, usc_biggest_lead |-> 0,
     opp_biggest_lead |-> 0, last_leader |-> "None", prev_leader |-> "None"]

\* lines 1922-1927
CurrentLeader(lead) == IF lead > 0 THEN "usc" ELSE IF lead < 0 THEN "opp" ELSE "None"

\* line 1930 comparing with the leader after the previous play
IsLeadChange_Consecutive(a, current_leader) ==
    current_leader # "None" /\ current_leader # a.prev_leader

\* line 1930 without the test of last_leader: the first lead counts
IsLeadChange_FirstLeadCounts(a, current_leader) ==
    current_leader # "None" /\ current_leader # a.last_leader

\* line 1930
IsLeadChange(a, current_leader) ==
    current_leader # "None" /\ a.last_leader # "None" /\ current_leader # a.last_leader

\* the loop body with line 1934 counting every tied play
LeadFold_EveryTie(a, lead) ==
    LET current_leader == CurrentLeader(lead)
    IN  [lead_changes     |-> a.lead_changes
                                + (IF IsLeadChange(a, current_leader) THEN 1 ELSE 0),
         times_tied       |-> a.times_tied
                                + (IF current_leader = "None" THEN 1 ELSE 0),
         usc_biggest_lead |-> IF lead > 0 THEN Max2(a.usc_biggest_lead, lead)
                              ELSE a.usc_biggest_lead,
         opp_biggest_lead |-> IF lead < 0 THEN Max2(a.opp_biggest_lead, Abs(lead))
                              ELSE a.opp_biggest_lead,
         last_leader      |-> IF current_leader # "None" THEN current_leader
                              ELSE a.last_leader,
         prev_leader      |-> current_leader]

\* one iteration of the loop of lines 1905-1939
LeadFold(a, lead) ==
    LET current_leader == CurrentLeader(lead)
    IN  [lead_changes     |-> a.lead_changes
                                + (IF IsLeadChange(a, current_leader) THEN 1 ELSE 0),
         times_tied       |-> a.times_tied
                                + (IF current_leader = "None" /\ a.prev_leader # "None"
                                   THEN 1 ELSE 0),
         usc_biggest_lead |-> IF lead > 0 THEN Max2(a.usc_biggest_lead, lead)
                              ELSE a.usc_biggest_lead,
         opp_biggest_lead |-> IF lead < 0 THEN Max2(a.opp_biggest_lead, Abs(lead))
                              ELSE a.opp_biggest_lead,
         last_leader      |-> IF current_leader # "None" THEN current_leader
                              ELSE a.last_leader,
         prev_leader      |-> current_leader]

LeadInit ==
    /\ usc_is_home \in BOOLEAN
    /\ lead_pc = "loop"
    /\ acc = InitAcc
    /\ twin = InitAcc
    /\ lead_play = NoScoring
    /\ lead_n = 0
    /\ lead_hist = << >>
    /\ ties_inserted = 0

\* one scoring play, in the list and in the twin's list
LeadStep(pl) ==
    /\ lead_pc = "loop"
    /\ lead_n < MaxLeadPlays
    /\ acc' = LeadFold(acc, LeadOf(pl, usc_is_home))
    /\ twin' = LeadFold(twin, LeadOf(pl, usc_is_home))
    /\ lead_play' = pl
    /\ lead_n' = lead_n + 1
    /\ lead_hist' = Append(lead_hist, LeadOf(pl, usc_is_home))
    /\ UNCHANGED <<usc_is_home, lead_pc, ties_inserted>>
    /\ UNCHANGED <<pmvars, scvars, flowvars, oddsvars, mainvars>>

\* one more scoring play with a tied score, in the twin's list alone
LeadInsertTied(pl) ==
    /\ lead_pc = "loop"
    /\ ties_inserted < MaxTies
    /\ LeadOf(pl, usc_is_home) = 0
    /\ twin' = LeadFold(twin, LeadOf(pl, usc_is_home))
    /\ ties_inserted' = ties_inserted + 1
    /\ UNCHANGED <<usc_is_home, lead_pc, acc, lead_play, lead_n, lead_hist>>
    /\ UNCHANGED <<pmvars, scvars, flowvars, oddsvars, mainvars>>

\* the end of scoring_plays (lines 1941-1946 display the counts)
LeadDone ==
    /\ lead_pc = "loop"
    /\ lead_n > 0
    /\ lead_pc' = "done"
    /\ UNCHANGED <<usc_is_home, acc, twin, lead_play, lead_n, lead_hist, ties_inserted>>
    /\ UNCHANGED <<pmvars, scvars, flowvars, oddsvars, mainvars>>

LeadNext ==
    \/ \E pl \in LeadPlays : LeadStep(pl)
    \/ \E pl \in LeadPlays : LeadInsertTied(pl)
    \/ LeadDone

----------------------------------------------------------------------------
(* generate_game_page: the game-flow lead series (lines 1760-1827)         *)

cols_per_quarter == 13

\* line 1763 without the column of the final "+"
TotalCols_NoFinal(np) == np * cols_per_quarter

\* line 1763
TotalCols(np) == np * cols_per_quarter + 1

\* a clock "M:SS" is its parts after split(":"); ok is FALSE when int() fails
\* on a part
Clock(ok, parts) == [ok |-> ok, parts |-> parts]

\* int(x / 50) for x >= 0
Div50(x) == x \div 50

\* lines 1770-1774: the segment the game clock is in; 0 on any exception
CurrentSeg(clock) ==
    IF ~clock.ok \/ clock.parts = << >> THEN 0
    ELSE LET mins_left    == clock.parts[1]
             secs_left    == IF Len(clock.parts) > 1 THEN clock.parts[2] ELSE 0
             secs_elapsed == 600 - (mins_left * 60 + secs_left)
         IN  IF secs_elapsed > 0 THEN Min2(12, Max2(1, Div50(secs_elapsed) + 1)) ELSE 0

\* lines 1767-1777
CutoffCol(np, live, period, clock) ==
    IF live /\ period > 0
    THEN (period - 1) * cols_per_quarter + CurrentSeg(clock)
    ELSE TotalCols(np)

\* lines 1790-1803 without the min(12, ...) of line 1801
Segment_Unclamped(clock) ==
    IF ~clock.ok \/ clock.parts = << >> THEN 6
    ELSE LET minutes_left      == clock.parts[1]
             seconds_left      == IF Len(clock.parts) > 1 THEN clock.parts[2] ELSE 0
             seconds_remaining == minutes_left * 60 + seconds_left
             seconds_elapsed   == 600 - seconds_remaining
         IN  IF seconds_elapsed <= 0 THEN 1
             ELSE Div50(seconds_elapsed) + 1

\* lines 1790-1803: the segment of a scoring play; 6 on any exception
Segment(clock) ==
    IF ~clock.ok \/ clock.parts = << >> THEN 6
    ELSE LET minutes_left      == clock.parts[1]
             seconds_left      == IF Len(clock.parts) > 1 THEN clock.parts[2] ELSE 0
             seconds_remaining == minutes_left * 60 + seconds_left
             seconds_elapsed   == 600 - seconds_remaining
         IN  IF seconds_elapsed <= 0 THEN 1
             ELSE Min2(12, Div50(seconds_elapsed) + 1)

\* lines 1784-1806
ColOf(pl) ==
    LET period    == Get(pl, "period", 1)
        clock_str == Get(pl, "clock", Clock(TRUE, <<10, 0>>))
    IN  (period - 1) * cols_per_quarter + Segment(clock_str)

\* lines 1821: a break column of the "+" every cols_per_quarter - 1 columns
IsBreak_Every12(col) == col % (cols_per_quarter - 1) = 0

\* line 1821
IsBreak(col) == col % cols_per_quarter = 0

RECURSIVE LastLead(_, _)
\* last_lead after the columns 0..col of the loop of lines 1820-1827
LastLead(lac, col) ==
    IF col < 0 THEN 0
    ELSE IF col \in DOMAIN lac THEN lac[col]
    ELSE LastLead(lac, col - 1)

\* lines 1818-1827 with the column of the cutoff itself left empty
Densify_CutoffExclusive(lac, np, cutoff_col) ==
    [i \in 1..TotalCols(np) |->
        IF IsBreak(i - 1) \/ (i - 1) >= cutoff_col THEN << >>
        ELSE <<LastLead(lac, i - 1)>>]

\* lines 1818-1827; entry col + 1 of the sequence is filled_lead[col]
Densify(lac, np, cutoff_col) ==
    [i \in 1..TotalCols(np) |->
        IF IsBreak(i - 1) \/ (i - 1) > cutoff_col THEN << >>
        ELSE <<LastLead(lac, i - 1)>>]

\* the numbers of a set of leads that is not empty
MaxOf(S) == CHOOSE m \in S : \A x \in S : x <= m
MinOf(S) == CHOOSE m \in S : \A x \in S : m <= x

\* line 1830
ValidLeads(fl) == {fl[i][1] : i \in {j \in 1..Len(fl) : fl[j] # << >>}}

\* lines 1831-1832
MaxUscLead(fl) == IF ValidLeads(fl) # {} THEN Max2(0, MaxOf(ValidLeads(fl))) ELSE 0
MaxOppLead(fl) == IF ValidLeads(fl) # {} THEN Abs(Min2(0, MinOf(ValidLeads(fl)))) ELSE 0

\* lines 1833-1834: usc_height of max_usc_lead, opp_height of max_opp_lead
HeightOf(max_lead) == IF max_lead > 0 THEN Max2(1, (max_lead + 2) \div 3) ELSE 0

\* lines 1850-1857: the line of our team's row; entry col + 1 is the glyph
\* of column col
UscLine(fl, row) ==
    [i \in 1..Len(fl) |->
        IF fl[i] = << >> THEN " " ELSE IF fl[i][1] >= row * 3 THEN "." ELSE " "]

\* lines 1877-1884: the line of the opponent's row
OppLine(fl, row) ==
    [i \in 1..Len(fl) |->
        IF fl[i] = << >> THEN " " ELSE IF fl[i][1] <= -(row * 3) THEN "." ELSE " "]

\* the seconds left that a clock "M:SS" within a period shows; -1 for any
\* other clock
SecondsLeft(clock) ==
    IF clock.ok /\ Len(clock.parts) = 2
       /\ clock.parts[1] * 60 + clock.parts[2] \in 0..600
    THEN clock.parts[1] * 60 + clock.parts[2]
    ELSE -1

\* pl carries a period from 1 and a clock between 0:00 and 10:00
InPeriod(pl) ==
    /\ {"period", "clock"} \subseteq pl.keys
    /\ pl.period >= 1
    /\ SecondsLeft(pl.clock) >= 0

\* q is not before pl in the game: a later period, or the same period with
\* no more time left
NotBefore(pl, q) ==
    \/ pl.period < q.period
    \/ pl.period = q.period /\ SecondsLeft(pl.clock) >= SecondsLeft(q.clock)

\* a scoring play with period, clock "m:ss" and scores
FlowPlay(period, m, ss, hs, as) ==
    MkScoring({"period", "clock", "homeScore", "awayScore"}, period,
              Clock(TRUE, <<m, ss>>), hs, as)

\* the scoring plays fed to the loop: plays of the periods 1 and 2 from
\* 10:00 to 0:00, two of them in one 50-second bucket, plays of an overtime
\* period, and plays without period, without clock, without scores, with the
\* clock "45" and with a clock that is no number
FlowPlays ==
    { FlowPlay(1, 10, 0, 5, 0), FlowPlay(1, 9, 11, 2, 0), FlowPlay(1, 9, 10, 2, 0),
      FlowPlay(1, 9, 10, 2, 3), FlowPlay(1, 5, 0, 2, 3), FlowPlay(1, 1, 0, 5, 3),
      FlowPlay(2, 10, 0, 5, 0), FlowPlay(2, 9, 11, 2, 0), FlowPlay(2, 5, 0, 2, 3),
      FlowPlay(2, 0, 0, 5, 3), FlowPlay(2, 0, 0, 3, 3),
      FlowPlay(5, 9, 10, 2, 3), FlowPlay(5, 0, 0, 2, 0) }
    \cup
    { MkScoring({}, 1, << >>, 0, 0),
      MkScoring({"period", "homeScore", "awayScore"}, 2, << >>, 2, 0),
      MkScoring({"clock"}, 1, Clock(TRUE, <<0, 0>>), 0, 0),
      MkScoring({"clock", "homeScore", "awayScore"}, 1, Clock(TRUE, <<45>>), 2, 0),
      MkScoring({"period", "clock", "homeScore", "awayScore"}, 2, Clock(FALSE, <<0>>),
                2, 3) }

\* the status of the game: finished, or live in a period at a clock
FlowInit ==
    /\ flow_pc = "record"
    /\ num_periods \in {4, 5}
    /\ \/ /\ is_live = FALSE
          /\ game_period = 4
          /\ game_clock = Clock(TRUE, <<0, 0>>)
       \/ /\ is_live = TRUE
          /\ game_period = 2
          /\ game_clock \in { Clock(TRUE, <<10, 0>>), Clock(TRUE, <<9, 11>>),
                              Clock(TRUE, <<5, 0>>), Clock(FALSE, << >>) }
       \/ /\ is_live = TRUE
          /\ game_period = 0
          /\ game_clock = Clock(TRUE, <<5, 0>>)
    /\ lead_at_col = << >>
    /\ filled_lead = << >>
    /\ flow_n = 0
    /\ usc_rows = << >>
    /\ opp_rows = << >>
    /\ flow_play = NoScoring
    /\ flow_old = << >>
    /\ flow_chrono = TRUE

\* one iteration that keeps the lead a column already has (line 1813 as
\* lead_at_col.setdefault(col, lead))
FlowRecord_FirstWins(pl) ==
    /\ flow_pc = "record"
    /\ flow_n < MaxFlowPlays
    /\ lead_at_col' = [c \in DOMAIN lead_at_col \cup {ColOf(pl)} |->
                          IF c \in DOMAIN lead_at_col THEN lead_at_col[c]
                          ELSE LeadOf(pl, usc_is_home)]
    /\ flow_n' = flow_n + 1
    /\ flow_play' = pl
    /\ flow_old' = IF ColOf(pl) \in DOMAIN lead_at_col THEN <<lead_at_col[ColOf(pl)]>>
                   ELSE << >>
    /\ flow_chrono' = (/\ flow_chrono
                       /\ InPeriod(pl)
                       /\ flow_n > 0 => NotBefore(flow_play, pl))
    /\ UNCHANGED <<flow_pc, num_periods, is_live, game_period, game_clock, filled_lead,
                   usc_rows, opp_rows>>
    /\ UNCHANGED <<pmvars, scvars, leadvars, oddsvars, mainvars>>

\* one iteration of the loop of lines 1783-1813
FlowRecord(pl) ==
    /\ flow_pc = "record"
    /\ flow_n < MaxFlowPlays
    /\ lead_at_col' = [c \in DOMAIN lead_at_col \cup {ColOf(pl)} |->
                          IF c = ColOf(pl) THEN LeadOf(pl, usc_is_home)
                          ELSE lead_at_col[c]]
    /\ flow_n' = flow_n + 1
    /\ flow_play' = pl
    /\ flow_old' = IF ColOf(pl) \in DOMAIN lead_at_col THEN <<lead_at_col[ColOf(pl)]>>
                   ELSE << >>
    /\ flow_chrono' = (/\ flow_chrono
                       /\ InPeriod(pl)
                       /\ flow_n > 0 => NotBefore(flow_play, pl))
    /\ UNCHANGED <<flow_pc, num_periods, is_live, game_period, game_clock, filled_lead,
                   usc_rows, opp_rows>>
    /\ UNCHANGED <<pmvars, scvars, leadvars, oddsvars, mainvars>>

\* the loop of lines 1818-1827 and the rows of lines 1829-1888, entered when
\* scoring_plays is not empty
FlowFill ==
    /\ flow_pc = "record"
    /\ flow_n > 0
    /\ LET fl == Densify(lead_at_col, num_periods,
                         CutoffCol(num_periods, is_live, game_period, game_clock))
       IN  /\ filled_lead' = fl
           /\ usc_rows' = [row \in 1..HeightOf(MaxUscLead(fl)) |-> UscLine(fl, row)]
           /\ opp_rows' = [row \in 1..HeightOf(MaxOppLead(fl)) |-> OppLine(fl, row)]
    /\ flow_pc' = "filled"
    /\ UNCHANGED <<num_periods, is_live, game_period, game_clock, lead_at_col, flow_n,
                   flow_play, flow_old, flow_chrono>>
    /\ UNCHANGED <<pmvars, scvars, leadvars, oddsvars, mainvars>>

FlowNext ==
    \/ \E pl \in FlowPlays : FlowRecord(pl)
    \/ FlowFill

\* one scoring play of the list that both loops of generate_game_page walk:
\* its iteration of lines 1783-1813 and its iteration of lines 1905-1939
PagePlay(pl) ==
    /\ flow_pc = "record"
    /\ lead_pc = "loop"
    /\ flow_n < MaxFlowPlays
    /\ lead_at_col' = [c \in DOMAIN lead_at_col \cup {ColOf(pl)} |->
                          IF c = ColOf(pl) THEN LeadOf(pl, usc_is_home)
                          ELSE lead_at_col[c]]
    /\ flow_n' = flow_n + 1
    /\ flow_play' = pl
    /\ flow_old' = IF ColOf(pl) \in DOMAIN lead_at_col THEN <<lead_at_col[ColOf(pl)]>>
                   ELSE << >>
    /\ flow_chrono' = (/\ flow_chrono
                       /\ InPeriod(pl)
                       /\ flow_n > 0 => NotBefore(flow_play, pl))
    /\ acc' = LeadFold(acc, LeadOf(pl, usc_is_home))
    /\ twin' = LeadFold(twin, LeadOf(pl, usc_is_home))
    /\ lead_play' = pl
    /\ lead_n' = lead_n + 1
    /\ lead_hist' = Append(lead_hist, LeadOf(pl, usc_is_home))
    /\ UNCHANGED <<flow_pc, num_periods, is_live, game_period, game_clock, filled_lead,
                   usc_rows, opp_rows>>
    /\ UNCHANGED <<usc_is_home, lead_pc, ties_inserted>>
    /\ UNCHANGED <<pmvars, scvars, oddsvars, mainvars>>

\* the end of scoring_plays in both loops: the series and the rows of lines
\* 1818-1888, then the summary of lines 1941-1946
PageRender ==
    /\ flow_pc = "record"
    /\ lead_pc = "loop"
    /\ flow_n > 0
    /\ LET fl == Densify(lead_at_col, num_periods,
                         CutoffCol(num_periods, is_live, game_period, game_clock))
       IN  /\ filled_lead' = fl
           /\ usc_rows' = [row \in 1..HeightOf(MaxUscLead(fl)) |-> UscLine(fl, row)]
           /\ opp_rows' = [row \in 1..HeightOf(MaxOppLead(fl)) |-> OppLine(fl, row)]
    /\ flow_pc' = "filled"
    /\ lead_pc' = "done"
    /\ UNCHANGED <<num_periods, is_live, game_period, game_clock, lead_at_col, flow_n,
                   flow_play, flow_old, flow_chrono>>
    /\ UNCHANGED <<usc_is_home, acc, twin, lead_play, lead_n, lead_hist, ties_inserted>>
    /\ UNCHANGED <<pmvars, scvars, oddsvars, mainvars>>

PageNext ==
    \/ \E pl \in FlowPlays : PagePlay(pl)
    \/ PageRender

----------------------------------------------------------------------------
(* fetch_game_odds and the odds cache (lines 55-155)                       *)

EventIds == {"e1", "e2"}

\* an entry of the cache: the keys of odds_data and the quote they carry
Odds(keys, quote) == [keys |-> keys, quote |-> quote]

\* the cache file: missing, unreadable as JSON, or a dict
CacheFile(state, data) == [state |-> state, data |-> data]

\* load_odds_cache (lines 55-62): the dict of the file, {} when the file is
\* missing or cannot be read
load_odds_cache(file) == IF file.state = "ok" THEN file.data ELSE << >>

\* line 78 with the cache looked up under another key than the event id
CacheHit_WrongKey(cache, event_id) == "home" \in DOMAIN cache

\* line 78: event_id in cache
CacheHit(cache, event_id) == event_id \in DOMAIN cache

\* the answer of the odds API: an error, or a list of games in which one
\* matches both team names or none does; the first bookmaker of the match
\* has `markets' with outcomes, the spread outcome of the home team or not
Answer(kind, matched, bookmakers, markets, spread_home, quote) ==
    [kind |-> kind, matched |-> matched, bookmakers |-> bookmakers,
     markets |-> markets, spread_home |-> spread_home, quote |-> quote]

Answers ==
    { Answer("error", FALSE, FALSE, {}, FALSE, 0),
      Answer("games", FALSE, FALSE, {}, FALSE, 0),
      Answer("games", TRUE, FALSE, {}, FALSE, 0),
      Answer("games", TRUE, TRUE, {}, FALSE, 0),
      Answer("games", TRUE, TRUE, {"spreads"}, FALSE, 1) }
    \cup { Answer("games", TRUE, TRUE, m, TRUE, q) :
             m \in {{"spreads"}, {"totals", "h2h"}}, q \in {1, 2} }

\* the odds API was not asked
NoAnswer == Answer("none", FALSE, FALSE, {}, FALSE, 0)

\* lines 108-147: the keys of odds_data built from the first bookmaker
OddsKeys(ans) ==
    (IF "spreads" \in ans.markets /\ ans.spread_home THEN {"spread"} ELSE {})
    \cup (IF "totals" \in ans.markets THEN {"total"} ELSE {})
    \cup (IF "h2h" \in ans.markets THEN {"moneyline"} ELSE {})

\* lines 90-155 after the cache miss with an API key: << >> when the call
\* returns None, <<odds_data>> otherwise
OddsFromApi(ans) ==
    IF ans.kind = "error" THEN << >>
    ELSE IF ~ans.matched \/ ~ans.bookmakers THEN << >>
    ELSE IF OddsKeys(ans) = {} THEN << >>
    ELSE <<Odds(OddsKeys(ans), ans.quote)>>

\* lines 150-151 with the new entry alone written to the file
SavedCache_OnlyNew(cache, event_id, odds_data) ==
    CacheFile("ok", [e \in {event_id} |-> odds_data])

\* lines 150-151: cache[event_id] = odds_data; save_odds_cache(cache)
SavedCache(cache, event_id, odds_data) ==
    CacheFile("ok", [e \in DOMAIN cache \cup {event_id} |->
                        IF e = event_id THEN odds_data ELSE cache[e]])

OddsInit ==
    /\ cache_file \in { CacheFile("missing", << >>), CacheFile("corrupt", << >>),
                        CacheFile("ok", << >>),
                        CacheFile("ok", [e \in {"e1"} |-> Odds({"total"}, 2)]) }
    /\ api_key \in BOOLEAN
    /\ api_calls = 0
    /\ file_writes = 0
    /\ odds_event = "e1"
    /\ odds_result = << >>
    /\ odds_calls = 0
    /\ odds_answer = NoAnswer

\* one call fetch_game_odds(event_id, home, away); ans is what the odds API
\* answers if it is asked
FetchGameOdds(event_id, ans) ==
    /\ odds_calls < MaxOddsCalls
    /\ odds_calls' = odds_calls + 1
    /\ odds_event' = event_id
    /\ LET cache == load_odds_cache(cache_file)
       IN  IF CacheHit(cache, event_id)
           THEN /\ odds_result' = <<cache[event_id]>>
                /\ odds_answer' = NoAnswer
                /\ UNCHANGED <<cache_file, api_calls, file_writes>>
           ELSE IF ~api_key
           THEN /\ odds_result' = << >>
                /\ odds_answer' = NoAnswer
                /\ UNCHANGED <<cache_file, api_calls, file_writes>>
           ELSE /\ api_calls' = api_calls + 1
                /\ odds_answer' = ans
                /\ odds_result' = OddsFromApi(ans)
                /\ IF OddsFromApi(ans) # << >>
                   THEN /\ cache_file' = SavedCache(cache, event_id, OddsFromApi(ans)[1])
                        /\ file_writes' = file_writes + 1
                   ELSE UNCHANGED <<cache_file, file_writes>>
    /\ UNCHANGED api_key
    /\ UNCHANGED <<pmvars, scvars, leadvars, flowvars, mainvars>>

OddsNext == \E event_id \in EventIds, ans \in Answers : FetchGameOdds(event_id, ans)

----------------------------------------------------------------------------
(* main: the update gate (lines 2485-2506) and is_game_live_or_imminent    *)
(* (lines 644-691), from the point where the two schedules and the         *)
(* scoreboard have been fetched                                            *)

USC_TEAM_ID == "30"
NU_TEAM_ID == "77"
PREGAME_WINDOW_MINUTES == 60

\* an event of a schedule: the state of its competition and its date; the
\* date is "none" (absent or empty), "bad" (no ISO date) or "ok", and then
\* minutes is the time from now to the start of the game
Event(state, date, minutes) == [state |-> state, date |-> date, minutes |-> minutes]

Events ==
    { Event(st, "none", 0) : st \in {"in", "post", "", "pre"} }
    \cup { Event("pre", "bad", 0) }
    \cup { Event("pre", "ok", mi) : mi \in {-31, -30, 0, 60, 61} }

Schedules ==
    { << >> } \cup { <<e>> : e \in Events }
    \cup { <<Event("post", "none", 0), e>> : e \in {Event("in", "none", 0),
                                                   Event("pre", "ok", 60),
                                                   Event("pre", "ok", 61)} }

\* the state of the team's game on the scoreboard; "absent" when the
\* scoreboard has no game of the team
BoardStates == {"absent", "pre", "in", "post", ""}

\* find_usc_game (lines 621-641): the state of the game found, "absent"
\* when none is found
find_usc_game(board, schedule, team_id) ==
    IF board[team_id] # "absent" THEN board[team_id]
    ELSE IF \E i \in 1..Len(schedule) : schedule[i].state \notin {"pre", "post", ""}
    THEN (schedule[CHOOSE i \in 1..Len(schedule) :
                      /\ schedule[i].state \notin {"pre", "post", ""}
                      /\ \A j \in 1..(i - 1) : schedule[j].state \in {"pre", "post", ""}]).state
    ELSE "absent"

\* lines 666-689: an event of the schedule that triggers the update
Triggers(event) ==
    \/ event.state \notin {"pre", "post", ""}
    \/ /\ event.state = "pre"
       /\ event.date = "ok"
       /\ -30 <= event.minutes /\ event.minutes <= PREGAME_WINDOW_MINUTES

\* is_game_live_or_imminent (lines 644-691): should_update
is_game_live_or_imminent(schedule, board, team_id) ==
    LET state == find_usc_game(board, schedule, team_id)
    IN  \/ state # "absent" /\ state = "post"
        \/ state # "absent" /\ state \notin {"pre", "", "post"}
        \/ \E i \in 1..Len(schedule) : Triggers(schedule[i])

\* line 2498
ShouldUpdate(usc_should, nu_should) == usc_should \/ nu_should

\* line 2501 without the test of force_update
SkipsUpdate_IgnoresForce(should_update, force) == ~should_update

\* line 2501
SkipsUpdate(should_update, force) == ~should_update /\ ~force

\* the pages main writes, in the order it writes them (lines 2528-2693)
PageOrder == <<"index.html", "schedule.html", "games", "nu.html", "nu-schedule.html",
               "nu-games", "b1g.html">>

MainInit ==
    /\ main_pc = "gate"
    /\ force_update \in BOOLEAN
    /\ scoreboard \in [{USC_TEAM_ID, NU_TEAM_ID} -> BoardStates]
    /\ schedules \in [{USC_TEAM_ID, NU_TEAM_ID} -> Schedules]
    /\ exit_status = 0
    /\ pages = << >>

\* lines 2496-2506
MainGate ==
    /\ main_pc = "gate"
    /\ LET usc_should == is_game_live_or_imminent(schedules[USC_TEAM_ID], scoreboard,
                                                  USC_TEAM_ID)
           nu_should  == is_game_live_or_imminent(schedules[NU_TEAM_ID], scoreboard,
                                                  NU_TEAM_ID)
       IN  IF SkipsUpdate(ShouldUpdate(usc_should, nu_should), force_update)
           THEN main_pc' = "exited" /\ exit_status' = 1
           ELSE main_pc' = "generate" /\ UNCHANGED exit_status
    /\ UNCHANGED <<force_update, scoreboard, schedules, pages>>
    /\ UNCHANGED <<pmvars, scvars, leadvars, flowvars, oddsvars>>

\* the next page is generated and written
MainWrite ==
    /\ main_pc = "generate"
    /\ Len(pages) < Len(PageOrder)
    /\ pages' = Append(pages, PageOrder[Len(pages) + 1])
    /\ main_pc' = IF Len(pages') = Len(PageOrder) THEN "done" ELSE "generate"
    /\ UNCHANGED <<force_update, scoreboard, schedules, exit_status>>
    /\ UNCHANGED <<pmvars, scvars, leadvars, flowvars, oddsvars>>

MainNext == MainGate \/ MainWrite

----------------------------------------------------------------------------
(* Specifications: one function call each                                  *)

\* every function starts from its entry state; the inputs of the functions
\* other than m, which is the one called, are held at one value
Start(m) ==
    /\ IF m \in {"Lead", "Page"} THEN TRUE ELSE usc_is_home = TRUE
    /\ IF m = "Flow" THEN TRUE ELSE num_periods = 4 /\ is_live = FALSE
    /\ IF m = "Odds" THEN TRUE
                     ELSE cache_file = CacheFile("missing", << >>) /\ api_key = FALSE
    /\ IF m = "Main" THEN TRUE
                     ELSE /\ force_update = FALSE
                          /\ scoreboard = [t \in {USC_TEAM_ID, NU_TEAM_ID} |-> "absent"]
                          /\ schedules = [t \in {USC_TEAM_ID, NU_TEAM_ID} |-> << >>]
    /\ PMInit /\ SCInit /\ LeadInit /\ FlowInit /\ OddsInit /\ MainInit

SpecPM == Start("PM") /\ [][PMNext]_vars

SpecSC == Start("SC") /\ [][SCNext]_vars

SpecLead == Start("Lead") /\ [][LeadNext]_vars

SpecFlow == Start("Flow") /\ [][FlowNext]_vars

\* the game flow and the lead summary of one finished game
SpecPage == Start("Page") /\ [][PageNext]_vars

SpecOdds == Start("Odds") /\ [][OddsNext]_vars

SpecMain == Start("Main") /\ [][MainNext]_vars

----------------------------------------------------------------------------
(* Claims on calculate_plus_minus                                          *)

\* the differential of team t over the last iteration
TeamDiff(t, hd, ad) == IF t = home_team_id THEN hd - ad ELSE ad - hd

\* the final margin of team t: its score minus the opponent's
Margin(t) == TeamDiff(t, prev_home_score, prev_away_score)

\* this step is an iteration on a play that is not a substitution and that
\* changes the score
ScoringStep ==
    /\ pm_n' = pm_n + 1
    /\ pm_pc' = "loop"
    /\ ~IsSubstitution(play')
    /\ (prev_home_score' # prev_home_score \/ prev_away_score' # prev_away_score)

\* the last play announced the swap of X for Y in team T
Swapped == SwapOf(play, on_court_before) # << >>
SwapT == SwapOf(play, on_court_before)[1]
SwapX == SwapOf(play, on_court_before)[2]
SwapY == SwapOf(play, on_court_before)[3]

\* C1 as stated: after the play "X subbing out, Y subbing in" of team T (X on
\* court, Y on the bench), the next score-changing play adds nothing to X's
\* plus/minus and adds T's differential of that play to Y's.
C1_Claimed ==
    [][ (Swapped /\ ScoringStep) =>
            /\ plus_minus'[SwapX] = plus_minus[SwapX]
            /\ plus_minus'[SwapY] = plus_minus[SwapY]
                    + TeamDiff(SwapT, prev_home_score' - prev_home_score,
                               prev_away_score' - prev_away_score) ]_vars

\* C1 amended: the play "X subbing out, Y subbing in" of team T, with X its
\* first participant, takes X off the court and leaves Y on the bench; the next
\* score-changing play that is not itself a substitution adds nothing to X's
\* plus/minus and nothing to Y's.
C1_SwapRemovesOnly ==
    [][ (Swapped /\ ScoringStep) =>
            /\ SwapX \notin on_court[SwapT]
            /\ SwapY \notin on_court[SwapT]
            /\ plus_minus'[SwapX] = plus_minus[SwapX]
            /\ plus_minus'[SwapY] = plus_minus[SwapY]
            /\ \A a \in on_court[SwapT] \cap AllRostered :
                 plus_minus'[a] = plus_minus[a]
                    + TeamDiff(SwapT, prev_home_score' - prev_home_score,
                               prev_away_score' - prev_away_score) ]_vars

\* a score-changing play that is not a substitution has followed the swap play
C1_Witness ==
    /\ swap_before # << >>
    /\ pm_pc = "loop"
    /\ ~IsSubstitution(play)
    /\ on_court_before = on_court
    /\ plus_minus[swap_before[2]] # plus_minus["h1"]
    /\ plus_minus[swap_before[3]] = 0

\* C2 as stated: with no substitution play and exactly 5 players of a team on
\* court, the team's players' returned plus/minus sum to the team's final
\* margin.
C2_Claimed ==
    \A t \in TrackedTeams :
        (pm_pc = "returned" /\ ~sub_seen /\ Cardinality(on_court[t]) = 5) =>
            SumOver(plus_minus, RosterOf(t)) = Margin(t)

\* C2 amended: with no substitution play and exactly 5 players of a team on
\* court, each of the five ends with the team's final margin and every other
\* player of the team with 0, so the team's sum is 5 times its final margin.
C2_SumIsFiveMargins ==
    \A t \in TrackedTeams :
        (pm_pc = "returned" /\ ~sub_seen /\ Cardinality(on_court[t]) = 5) =>
            /\ \A a \in on_court[t] : plus_minus[a] = Margin(t)
            /\ \A a \in RosterOf(t) \ on_court[t] : plus_minus[a] = 0
            /\ SumOver(plus_minus, RosterOf(t)) = 5 * Margin(t)

\* a returned run of scoring plays without substitution, both teams scoring
C2_Witness ==
    /\ pm_pc = "returned"
    /\ ~sub_seen
    /\ pm_n = MaxPlays
    /\ prev_home_score > 0
    /\ prev_away_score > prev_home_score
    /\ \A t \in TrackedTeams : Cardinality(on_court[t]) = 5

\* C3: while no play has changed the score from 0-0, the mapping has an entry
\* for every rostered player and every entry is 0, whatever substitutions
\* occurred.
C3_NoScoreAllZero ==
    (pm_pc # "raised" /\ prev_home_score = 0 /\ prev_away_score = 0) =>
        /\ DOMAIN plus_minus = AllRostered
        /\ \A a \in DOMAIN plus_minus : plus_minus[a] = 0

\* a returned run of substitutions that changed the lineup, with no score
C3_Witness ==
    /\ pm_pc = "returned"
    /\ prev_home_score = 0 /\ prev_away_score = 0
    /\ pm_n = MaxPlays
    /\ "h5" \notin on_court["H"]
    /\ "h6" \in on_court["H"]
    /\ "homeScore" \in play.keys

\* one iteration of the loop of calculate_plus_minus has run on play'
\* without raising
PmIteration == pm_n' = pm_n + 1 /\ pm_pc' = "loop"

HomeDiff == prev_home_score' - prev_home_score
AwayDiff == prev_away_score' - prev_away_score

\* the type of p names a substitution
SubCategory(p) == Contains(Lower(Get(p, "type", << >>)), <<"substitution">>)

\* the text of p says that a player leaves, enters
OutText(p) ==
    \/ Contains(Lower(Get(p, "text", << >>)), <<"subbing", "out">>)
    \/ Contains(Lower(Get(p, "text", << >>)), <<"exits">>)
InText(p) ==
    \/ Contains(Lower(Get(p, "text", << >>)), <<"subbing", "in">>)
    \/ Contains(Lower(Get(p, "text", << >>)), <<"enters">>)

\* p names a first participant with an id, for a team of the on-court map
HasSubject(p) ==
    /\ "participants" \in p.keys \ p.nulls
    /\ p.participants # << >>
    /\ p.participants[1] # ""
    /\ Get(p, "team", "") \in DOMAIN on_court

\* C15: on every play that changes the score, each player with a plus/minus
\* entry gains home_diff - away_diff when in the home team's on-court set
\* as it is after the play's own substitution, away_diff - home_diff when
\* in another tracked team's on-court set, and nothing when not on court;
\* no entry is made for a player on court that the box score does not list.
C15_OnCourtGainsDiff ==
    [][ (PmIteration /\ (HomeDiff # 0 \/ AwayDiff # 0)) =>
            /\ DOMAIN plus_minus' = DOMAIN plus_minus
            /\ \A a \in DOMAIN plus_minus :
                  plus_minus'[a] - plus_minus[a] =
                      IF a \in on_court'[home_team_id] THEN HomeDiff - AwayDiff
                      ELSE IF \E t \in DOMAIN on_court' : a \in on_court'[t]
                           THEN AwayDiff - HomeDiff
                           ELSE 0 ]_vars

\* h6 entered on a substitution play that also carried a home basket, and
\* was credited with it
C15_Witness ==
    /\ pm_pc = "loop"
    /\ SubCategory(play) /\ InText(play) /\ ~OutText(play)
    /\ play.participants = <<"h6">>
    /\ "h6" \notin on_court_before["H"]
    /\ "h6" \in on_court["H"]
    /\ "x9" \in on_court["H"]
    /\ plus_minus["h6"] = 2
    /\ plus_minus["h5"] = 2
    /\ plus_minus["a1"] = -2

\* C16 (as claimed): on a substitution play the first participant is off
\* the on-court set of the play's team when the text contains "subbing out"
\* or "exits" and is in it when the text contains "subbing in" or "enters";
\* nothing else changes.
C16_Claimed ==
    [][ (PmIteration /\ SubCategory(play') /\ HasSubject(play')) =>
            LET t == play'.team
                x == play'.participants[1]
            IN  /\ OutText(play') => x \notin on_court'[t]
                /\ InText(play') => x \in on_court'[t]
                /\ on_court'[t] \ {x} = on_court[t] \ {x}
                /\ \A u \in DOMAIN on_court \ {t} : on_court'[u] = on_court[u] ]_vars

\* C16 amended: on a substitution play the first participant is removed
\* from the on-court set of the play's team when the text contains
\* "subbing out" or "exits"; it is added when the text contains "subbing
\* in" or "enters" and neither "subbing out" nor "exits"; no other player
\* and no other team's set changes.
C16_OutBeforeIn ==
    [][ (PmIteration /\ SubCategory(play') /\ HasSubject(play')) =>
            LET t == play'.team
                x == play'.participants[1]
            IN  /\ OutText(play') => on_court'[t] = on_court[t] \ {x}
                /\ (InText(play') /\ ~OutText(play')) =>
                        on_court'[t] = on_court[t] \cup {x}
                /\ on_court'[t] \ {x} = on_court[t] \ {x}
                /\ \A u \in DOMAIN on_court \ {t} : on_court'[u] = on_court[u] ]_vars

\* h6, who had entered, is the first participant of a play whose text has
\* both directions, and is off the court after it
C16_Witness ==
    /\ pm_pc = "loop"
    /\ SubCategory(play) /\ OutText(play) /\ InText(play)
    /\ play.team = "H"
    /\ play.participants = <<"h6">>
    /\ "h6" \in on_court_before["H"]
    /\ "h6" \notin on_court["H"]
    /\ on_court["A"] = on_court_before["A"]

\* C17: before the first play the on-court sets are the starters of the box
\* score, and an iteration changes an on-court set only when its play is a
\* substitution whose text has a direction and whose team is in the
\* on-court map; the teams of the map never change.
C17_OnlySubstitutionsMove ==
    [][ /\ pm_n = 0 =>
              on_court = [t \in {"H", "A"} |->
                            IF t = "H" THEN {"h1", "h2", "h3", "h4", "h5"}
                            ELSE {"a1", "a2", "a3", "a4", "a5"}]
        /\ DOMAIN on_court' = DOMAIN on_court
        /\ on_court' # on_court =>
              /\ PmIteration
              /\ SubCategory(play')
              /\ OutText(play') \/ InText(play')
              /\ Get(play', "team", "") \in DOMAIN on_court ]_vars

\* after h6 entered, a substitution play without direction and one for an
\* unknown team left the sets as they were
C17_Witness ==
    /\ pm_pc = "loop"
    /\ pm_n = 3
    /\ SubCategory(play)
    /\ Get(play, "team", "") = "Z"
    /\ "h6" \in on_court["H"]
    /\ on_court = on_court_before

\* C8: a play list whose plays only lack keys never raises and ends with a
\* mapping over the roster; a play without homeScore (awayScore) leaves the
\* home (away) score as it was, a play without both credits nobody, and a
\* substitution play without team or without participants changes no
\* on-court set.
C8_MissingKeysDegrade ==
    [][ /\ (pm_pc' = "raised" => play'.nulls # {})
        /\ (pm_pc' = "returned" =>
                /\ DOMAIN plus_minus' = AllRostered
                /\ \A a \in AllRostered : plus_minus'[a] \in Int)
        /\ (pm_n' = pm_n + 1 /\ play'.nulls = {}) =>
                /\ pm_pc' = "loop"
                /\ ("homeScore" \notin play'.keys => prev_home_score' = prev_home_score)
                /\ ("awayScore" \notin play'.keys => prev_away_score' = prev_away_score)
                /\ (play'.keys \cap {"homeScore", "awayScore"} = {} =>
                        plus_minus' = plus_minus)
                /\ (IsSubstitution(play')
                      /\ ("team" \notin play'.keys \/ "participants" \notin play'.keys)
                        => on_court' = on_court) ]_vars

\* after a score, a substitution play without team and without scores, whose
\* first participant is on court and whose text says "subbing out", was
\* processed and the call returned
C8_Witness ==
    /\ pm_pc = "returned"
    /\ prev_home_score > 0
    /\ IsSubstitution(play) /\ SubbingOut(play)
    /\ play.keys = {"type", "text", "participants"}
    /\ play.nulls = {}
    /\ FirstParticipant(play) \in on_court["H"]

\* what the last iteration added to the plus/minus of a
GainOf(a) == plus_minus'[a] - plus_minus[a]

\* C23: on every play that changes the score, what is added to each
\* rostered player on court for the home team is the negative of what is
\* added to each rostered player on court for the other team; and while
\* both teams had as many rostered players on court at every change of the
\* score, all plus/minus values sum to 0, in the returned mapping too.
C23_GainsCancel ==
    [][ /\ (PmIteration /\ (HomeDiff # 0 \/ AwayDiff # 0)) =>
              \A h \in on_court'["H"] \cap DOMAIN plus_minus :
                  \A o \in on_court'["A"] \cap DOMAIN plus_minus :
                      GainOf(h) = 0 - GainOf(o)
        /\ balanced' => SumOver(plus_minus', DOMAIN plus_minus') = 0 ]_vars

\* h6 and a6 entered, six played six when the score changed, and the
\* returned values, not all 0, sum to 0
C23_Witness ==
    /\ pm_pc = "returned"
    /\ balanced
    /\ "h6" \in on_court["H"]
    /\ "a6" \in on_court["A"]
    /\ plus_minus["h6"] # 0
    /\ plus_minus["a6"] = 0 - plus_minus["h6"]
    /\ SumOver(plus_minus, DOMAIN plus_minus) = 0

\* C24: in the returned mapping every rostered starter that no substitution
\* took off the court has the final margin of their team, its score minus
\* the opponent's after the last play.
C24_StayingStartersGetTheMargin ==
    pm_pc = "returned" =>
        \A t \in TrackedTeams :
            \A a \in (Starters(boxscore[EntryOf(t)]) \cap DOMAIN plus_minus) \ removed :
                plus_minus[a] = Margin(t)

\* both teams scored, h5 left in between: h1 and a1 end with their teams'
\* margins, h5 does not
C24_Witness ==
    /\ pm_pc = "returned"
    /\ removed = {"h5"}
    /\ prev_home_score > 0
    /\ prev_away_score > 0
    /\ plus_minus["h1"] = prev_home_score - prev_away_score
    /\ plus_minus["a1"] = prev_away_score - prev_home_score
    /\ plus_minus["h5"] # plus_minus["h1"]

----------------------------------------------------------------------------
(* Claims on calculate_second_chance_pts                                   *)

\* C4: after every prefix of the play list, each team's second-chance total
\* is at most the sum of scoreValue over that team's scoring plays.
C4_SecondChanceAtMostScore ==
    /\ home_2ch <= home_pts
    /\ away_2ch <= away_pts

\* both teams were credited second-chance points
C4_Witness ==
    /\ sc_pc = "returned"
    /\ home_2ch > 0
    /\ home_2ch <= home_pts
    /\ away_2ch > 0
    /\ away_2ch < away_pts

\* C5: while no play's type has contained "Offensive Rebound", both totals
\* are 0.
C5_NoReboundNoPoints ==
    ~orb_seen => (home_2ch = 0 /\ away_2ch = 0)

\* a returned run without offensive rebound in which both teams scored, the
\* home team after a made free throw of its own
C5_Witness ==
    /\ sc_pc = "returned"
    /\ ~orb_seen
    /\ home_pts > 3
    /\ away_pts > 0
    /\ sc_n = MaxScPlays

\* one iteration of the loop of calculate_second_chance_pts has run on sc_play'
ScIteration == sc_n' = sc_n + 1

\* the type of q names one of the six clearing categories
ClearingCategory(q) ==
    \E x \in { <<"Defensive", "Rebound">>, <<"Turnover">>, <<"End", "Period">>,
               <<"Jumpball">>, <<"Dead", "Ball", "Rebound">>, <<"Steal">> } :
        Contains(Get(q, "type", << >>), x)

\* the type of q names an offensive rebound
ReboundCategory(q) == Contains(Get(q, "type", << >>), <<"Offensive", "Rebound">>)

\* the second-chance state that stands for team t ("other" for a third team)
StateOf(t) ==
    IF t = home_team_id THEN "home" ELSE IF t = away_team_id THEN "away" ELSE "other"

\* q is a scoring play with positive scoreValue attributed to a team
ScoringCategory(q) ==
    /\ ~ReboundCategory(q)
    /\ Get(q, "scoringPlay", FALSE)
    /\ Get(q, "scoreValue", 0) > 0
    /\ Get(q, "team", "") # ""

\* q is a missed shot attributed to a team
MissCategory(q) ==
    /\ ~ReboundCategory(q)
    /\ ~Get(q, "scoringPlay", FALSE)
    /\ Get(q, "scoreValue", 0) # 0
    /\ Get(q, "team", "") # ""

\* C11 (as claimed): after a play of one of the six clearing categories,
\* whatever its team, scoreValue and scoringPlay, second_chance_team is none.
C11_Claimed ==
    [][ScIteration /\ ClearingCategory(sc_play') => second_chance_team' = "none"]_vars

\* C12: a scoring play with positive scoreValue by team T adds scoreValue to
\* T's total exactly when the state is T and adds nothing to the other
\* total; afterwards the state is kept if the type is a free throw and is
\* none otherwise.
C12_ScoringPlayCreditsHolder ==
    [][ScIteration /\ ScoringCategory(sc_play') =>
         LET t == sc_play'.team
             v == sc_play'.scoreValue
         IN  /\ home_2ch' - home_2ch =
                    (IF t = home_team_id /\ second_chance_team = StateOf(t) THEN v ELSE 0)
             /\ away_2ch' - away_2ch =
                    (IF t = away_team_id /\ second_chance_team = StateOf(t) THEN v ELSE 0)
             /\ second_chance_team' =
                    (IF Contains(sc_play'.type, <<"FreeThrow">>)
                     THEN second_chance_team ELSE "none")]_vars

\* the home team holds the state after its offensive rebound and two made
\* free throws, both credited
C12_Witness ==
    /\ sc_n = 3
    /\ sc_play.type = <<"Made", "FreeThrow">>
    /\ sc_play.scoringPlay
    /\ sc_play.team = home_team_id
    /\ second_chance_team = "home"
    /\ home_2ch = 2
    /\ away_2ch = 0

\* C13: a missed shot by the team that holds the state leaves the state as
\* it is, and a missed shot by any other team leaves the state none.
C13_MissKeepsOwnClearsOther ==
    [][ScIteration /\ MissCategory(sc_play') =>
         second_chance_team' =
             (IF second_chance_team = StateOf(sc_play'.team)
              THEN second_chance_team ELSE "none")]_vars

\* the away team missed a shot while it held the state
C13_Witness ==
    /\ sc_n >= 2
    /\ sc_play.type = <<"JumpShot">>
    /\ ~sc_play.scoringPlay
    /\ sc_play.scoreValue = 3
    /\ sc_play.team = away_team_id
    /\ second_chance_team = "away"

\* C14: a play that is no offensive rebound of a team, no scoring play with
\* positive scoreValue of a team, no missed shot of a team and of none of
\* the six clearing categories leaves second_chance_team and both totals
\* unchanged.
C14_OtherPlaysChangeNothing ==
    [][ScIteration
         /\ ~(ReboundCategory(sc_play') /\ Get(sc_play', "team", "") # "")
         /\ ~ScoringCategory(sc_play')
         /\ ~MissCategory(sc_play')
         /\ ~ClearingCategory(sc_play')
       => UNCHANGED <<second_chance_team, home_2ch, away_2ch>>]_vars

\* a personal foul was called while the home team held the state
C14_Witness ==
    /\ sc_n >= 2
    /\ sc_play.type = <<"PersonalFoul">>
    /\ second_chance_team = "home"

\* C25: whenever a play's points are credited to team T, some earlier play
\* is an offensive rebound by T and no play between that rebound and the
\* credited play is a made basket other than a free throw, a missed shot by
\* the other team, an offensive rebound by the other team or a clearing
\* event.
C25_Claimed ==
    [][ /\ home_2ch' > home_2ch => home_team_id \in sc_window
        /\ away_2ch' > away_2ch => away_team_id \in sc_window ]_vars

----------------------------------------------------------------------------
(* Claims on the lead summary and the lead series                          *)

\* C6: the lead-change count over the scoring plays equals the count over
\* the same plays with tied-score scoring plays inserted at any positions.
C6_TiesKeepLeadChanges ==
    twin.lead_changes = acc.lead_changes

\* a list with two lead changes, and its twin with ties inserted before the
\* first play and between the two changes
C6_Witness ==
    /\ lead_pc = "done"
    /\ acc.lead_changes = 2
    /\ ties_inserted = MaxTies
    /\ twin.times_tied > acc.times_tied
    /\ twin.prev_leader # "None"

\* the indices of the plays of h after which a side leads
NonTied(h) == {i \in 1..Len(h) : h[i] # 0}

\* the plays of h whose leader differs from the leader of the nearest earlier
\* play that was not tied
ChangesIn(h) ==
    {i \in NonTied(h) :
        \E j \in NonTied(h) :
            /\ j < i
            /\ \A k \in (j + 1)..(i - 1) : h[k] = 0
            /\ (h[j] > 0) # (h[i] > 0)}

\* the tied plays of h that follow a play that was not tied
TiesIn(h) == {i \in 2..Len(h) : h[i] = 0 /\ h[i - 1] # 0}

\* the largest member of S, and 0 when S has no positive member
BiggestOf(S) == CHOOSE m \in S \cup {0} : \A x \in S \cup {0} : x <= m

\* C18: the lead-change count is the number of scoring plays whose non-tied
\* leader differs from the most recent earlier non-tied leader, so the first
\* lead is no change and ties in between are skipped; after the leads 2, -1,
\* 2 (the plays 2-0, 2-3, 5-3 with home ours) it is 2 and times tied is 0.
C18_LeadChangesCountLeaderSwitches ==
    /\ acc.lead_changes = Cardinality(ChangesIn(lead_hist))
    /\ lead_hist = <<2, -1, 2>> => (acc.lead_changes = 2 /\ acc.times_tied = 0)

\* the plays 2-0, 2-3, 5-3 with the home team ours
C18_Witness ==
    /\ lead_pc = "done"
    /\ usc_is_home
    /\ lead_hist = <<2, -1, 2>>
    /\ lead_play.homeScore = 5 /\ lead_play.awayScore = 3
    /\ acc.lead_changes = 2
    /\ acc.times_tied = 0

\* C19: the times-tied count is the number of scoring plays that leave the
\* score tied and follow a scoring play that did not; a tied first play and
\* a tied play after a tied play are not counted.
C19_TimesTiedCountsNewTies ==
    acc.times_tied = Cardinality(TiesIn(lead_hist))

\* a lead followed by two tied plays, counted once
C19_Witness ==
    /\ lead_pc = "done"
    /\ Len(lead_hist) = 3
    /\ lead_hist[1] # 0 /\ lead_hist[2] = 0 /\ lead_hist[3] = 0
    /\ acc.times_tied = 1

\* C20: after every scoring play our biggest lead is the maximum of 0 and
\* the largest lead so far, their biggest lead the maximum of 0 and the
\* largest of the negated leads, and neither decreases from one play to the
\* next.
C20_BiggestLeadsAreRunningMaxima ==
    [][ /\ acc'.usc_biggest_lead = BiggestOf({lead_hist'[i] : i \in 1..Len(lead_hist')})
        /\ acc'.opp_biggest_lead = BiggestOf({-lead_hist'[i] : i \in 1..Len(lead_hist')})
        /\ acc'.usc_biggest_lead >= acc.usc_biggest_lead
        /\ acc'.opp_biggest_lead >= acc.opp_biggest_lead ]_vars

\* we led by 3, then they led by 2, then the score was tied
C20_Witness ==
    /\ lead_pc = "done"
    /\ lead_hist = <<3, -2, 0>>
    /\ acc.usc_biggest_lead = 3
    /\ acc.opp_biggest_lead = 2

\* C7: the densified series has num_periods * cols_per_quarter + 1 entries
\* and the entry at every index that is a multiple of cols_per_quarter is None.
C7_SeriesLengthAndBreaks ==
    flow_pc = "filled" =>
        /\ Len(filled_lead) = num_periods * 13 + 1
        /\ \A col \in 0..(Len(filled_lead) - 1) :
             col % 13 = 0 => filled_lead[col + 1] = << >>

\* a finished game's series with a recorded lead carried into it, and a
\* play recorded in an overtime period
C7_Witness ==
    /\ flow_pc = "filled"
    /\ ~is_live
    /\ num_periods = 5
    /\ \E c \in DOMAIN lead_at_col : c > 4 * 13 /\ c < 5 * 13
    /\ \E i \in 1..Len(filled_lead) : filled_lead[i] = <<2>>
    /\ \E i \in 1..Len(filled_lead) : filled_lead[i] = <<-1>>

\* the lead recorded at the nearest column from 0 to col that has a record,
\* 0 when there is none
NearestRecord(col) ==
    LET S == {c \in DOMAIN lead_at_col : c <= col}
    IN  IF S = {} THEN 0 ELSE lead_at_col[MaxOf(S)]

\* cutoff_col of the game
Cutoff == CutoffCol(num_periods, is_live, game_period, game_clock)

\* C21: in the densified series every column that is no break column and is
\* not beyond cutoff_col holds the lead recorded at the nearest column at or
\* before it that has a record, 0 when there is none; for a game in progress
\* every column after cutoff_col is None; for a finished game no non-break
\* column is None.
C21_SeriesCarriesNearestRecord ==
    flow_pc = "filled" =>
        \A col \in 0..(Len(filled_lead) - 1) :
            /\ (col % 13 # 0 /\ col <= Cutoff) =>
                    filled_lead[col + 1] = <<NearestRecord(col)>>
            /\ (is_live /\ col > Cutoff) => filled_lead[col + 1] = << >>
            /\ (~is_live /\ col % 13 # 0) => filled_lead[col + 1] # << >>

\* a game in progress at 5:00 of the second period (cutoff_col 20): column 1
\* has no record before it, column 20 carries the lead -1 recorded earlier,
\* column 21 is None
C21_Witness ==
    /\ flow_pc = "filled"
    /\ is_live
    /\ Cutoff = 20
    /\ 20 \notin DOMAIN lead_at_col
    /\ filled_lead[2] = <<0>>
    /\ filled_lead[21] = <<-1>>
    /\ filled_lead[22] = << >>

\* C22: a scoring play replaces the record of its column by its lead and
\* touches no other column, so the series holds, at a column with a record,
\* the lead of the last play that mapped to it.
C22_LastWriteWins ==
    [][ /\ flow_n' = flow_n + 1 =>
              LET c == ColOf(flow_play')
              IN  /\ DOMAIN lead_at_col' = DOMAIN lead_at_col \cup {c}
                  /\ lead_at_col'[c] = LeadOf(flow_play', usc_is_home)
                  /\ \A d \in DOMAIN lead_at_col \ {c} : lead_at_col'[d] = lead_at_col[d]
        /\ (flow_pc = "record" /\ flow_pc' = "filled") =>
              /\ lead_at_col' = lead_at_col
              /\ \A c \in DOMAIN lead_at_col :
                    (c \in 0..(Len(filled_lead') - 1) /\ c % 13 # 0 /\ c <= Cutoff) =>
                        filled_lead'[c + 1] = <<lead_at_col[c]>> ]_vars

\* the last play replaced the lead 2 of its bucket by -1; the series holds
\* -1 there and 2 nowhere
C22_Witness ==
    /\ flow_pc = "filled"
    /\ flow_old = <<2>>
    /\ ColOf(flow_play) = 2
    /\ lead_at_col[2] = -1
    /\ filled_lead[3] = <<-1>>
    /\ \A i \in 1..Len(filled_lead) : filled_lead[i] # <<2>>

\* C26: a scoring play with period p and a clock between 0:00 and 10:00
\* gets a column in (p-1)*13+1 .. (p-1)*13+12, never a break column; a play
\* that is not before the previous one gets a column that is not lower; and
\* while the plays come in chronological order the lead kept for the bucket
\* of the last play is the lead of that play, the bucket of the play before
\* it keeping its lead when it is another bucket.
C26_ColumnsFollowTheClock ==
    [][ flow_n' = flow_n + 1 =>
          LET q == flow_play'
              c == ColOf(q)
          IN  /\ InPeriod(q) =>
                    /\ c \in ((q.period - 1) * 13 + 1)..((q.period - 1) * 13 + 12)
                    /\ c % 13 # 0
              /\ (flow_n > 0 /\ InPeriod(flow_play) /\ InPeriod(q)
                     /\ NotBefore(flow_play, q)) => ColOf(flow_play) <= c
              /\ flow_chrono' =>
                    /\ lead_at_col'[c] = LeadOf(q, usc_is_home)
                    /\ (flow_n > 0 /\ ColOf(flow_play) # c) =>
                          lead_at_col'[ColOf(flow_play)] = lead_at_col[ColOf(flow_play)] ]_vars

\* two plays in chronological order fell into bucket 1 of the first period
\* and the lead 2 of the later one replaced the lead 5 of the earlier one
C26_Witness ==
    /\ flow_chrono
    /\ flow_n = 2
    /\ flow_old = <<5>>
    /\ ColOf(flow_play) = 1
    /\ lead_at_col[1] = 2

\* the play has happened in the game in progress: its period is before the
\* current one, or it is in the current period with at least as much time
\* left as the game clock shows
AlreadyPlayed(pl) ==
    /\ InPeriod(pl)
    /\ SecondsLeft(game_clock) >= 0
    /\ \/ pl.period < game_period
       \/ pl.period = game_period /\ SecondsLeft(pl.clock) >= SecondsLeft(game_clock)

\* C27: for a game in progress every scoring play that has already happened
\* maps to a column at or before cutoff_col.
C27_Claimed ==
    (flow_n > 0 /\ is_live /\ game_period > 0 /\ AlreadyPlayed(flow_play)) =>
        ColOf(flow_play) <= Cutoff

\* C28: a column is filled in our row r exactly when its carried lead is a
\* value of at least 3*r, in the opponent's row r exactly when it is a value
\* of at most -3*r, and every rendered row has at least one filled glyph.
C28_Claimed ==
    flow_pc = "filled" =>
        /\ \A r \in DOMAIN usc_rows :
              /\ \A i \in 1..Len(filled_lead) :
                    usc_rows[r][i] = "." <=>
                        (filled_lead[i] # << >> /\ filled_lead[i][1] >= 3 * r)
              /\ \E i \in 1..Len(filled_lead) : usc_rows[r][i] = "."
        /\ \A r \in DOMAIN opp_rows :
              /\ \A i \in 1..Len(filled_lead) :
                    opp_rows[r][i] = "." <=>
                        (filled_lead[i] # << >> /\ filled_lead[i][1] <= -(3 * r))
              /\ \E i \in 1..Len(filled_lead) : opp_rows[r][i] = "."

\* C29: for a finished game no value of the densified series is above our
\* biggest lead of the lead summary, and no negative value has a magnitude
\* above their biggest lead.
C29_SeriesWithinBiggestLeads ==
    (flow_pc = "filled" /\ ~is_live) =>
        \A i \in 1..Len(filled_lead) :
            filled_lead[i] # << >> =>
                /\ filled_lead[i][1] <= acc.usc_biggest_lead
                /\ 0 - filled_lead[i][1] <= acc.opp_biggest_lead

\* a finished game whose series shows our lead 2 and stays below our biggest
\* lead 5, the play that gave it having been replaced in its bucket
C29_Witness ==
    /\ flow_pc = "filled"
    /\ ~is_live
    /\ lead_pc = "done"
    /\ acc.usc_biggest_lead = 5
    /\ flow_old = <<5>>
    /\ \E i \in 1..Len(filled_lead) : filled_lead[i] = <<2>>
    /\ \A i \in 1..Len(filled_lead) : filled_lead[i] # << >> => filled_lead[i][1] < 5

----------------------------------------------------------------------------
(* Claims on fetch_game_odds and main                                      *)

\* the event of the call of this step was in the cache file before the call
WasCached == cache_file.state = "ok" /\ odds_event' \in DOMAIN cache_file.data

\* C9: a call for an event id that is in the cache returns the stored entry,
\* calls no API and writes no cache file; a call asks the API only if the
\* event id is not cached and an API key is set.
C9_CachedOddsNoApi ==
    [][ odds_calls' = odds_calls + 1 =>
          /\ WasCached =>
                /\ odds_result' = <<cache_file.data[odds_event']>>
                /\ api_calls' = api_calls
                /\ file_writes' = file_writes
                /\ cache_file' = cache_file
          /\ api_calls' # api_calls => (~WasCached /\ api_key) ]_vars

\* the API was asked once, stored the odds of an event, and a later call for
\* that event returned them
C9_Witness ==
    /\ odds_calls = MaxOddsCalls
    /\ api_calls = 1
    /\ file_writes = 1
    /\ cache_file.state = "ok"
    /\ odds_event \in DOMAIN cache_file.data
    /\ odds_result = <<cache_file.data[odds_event]>>
    /\ odds_result[1].keys = {"total", "moneyline"}

\* the team has a game that is live, that just finished (it is final on the
\* scoreboard) or that starts within the pregame window (from 30 minutes
\* past its start time to PREGAME_WINDOW_MINUTES before it)
HasGame(team_id) ==
    \/ scoreboard[team_id] \in {"in", "post"}
    \/ \E i \in 1..Len(schedules[team_id]) :
          LET e == schedules[team_id][i]
          IN  \/ e.state = "in"
              \/ e.state = "pre" /\ e.date = "ok" /\ e.minutes \in -30..60

\* C10: past the gate, a run without --force in which neither team has a
\* game has exited with status 1 and has written no page; a run with --force
\* has not exited and is generating the pages.
C10_GateSkipsUnlessForced ==
    main_pc # "gate" =>
        /\ (~force_update /\ ~HasGame(USC_TEAM_ID) /\ ~HasGame(NU_TEAM_ID)) =>
                (main_pc = "exited" /\ exit_status = 1 /\ pages = << >>)
        /\ force_update =>
                (main_pc \in {"generate", "done"} /\ exit_status = 0)

\* a run without --force has exited: one team's next game starts a minute
\* outside the window after a finished one, the other's game is on the
\* scoreboard and has not started
C10_Witness ==
    /\ ~force_update
    /\ main_pc = "exited"
    /\ schedules[USC_TEAM_ID] = <<Event("post", "none", 0), Event("pre", "ok", 61)>>
    /\ scoreboard[NU_TEAM_ID] = "pre"
    /\ schedules[NU_TEAM_ID] = <<Event("pre", "bad", 0)>>

\* the odds API answered the last call with no game of the two teams, or
\* with a game that has no bookmaker or no market
NothingFound(ans) ==
    ans.kind = "games" /\ (~ans.matched \/ ~ans.bookmakers \/ ans.markets = {})

\* C30: while the cache file is not unreadable, a call of fetch_game_odds
\* leaves every cached event id in the file with the value it had, and a
\* call that finds no matching game or no odds markets writes nothing.
C30_CacheOnlyGrows ==
    [][ odds_calls' = odds_calls + 1 =>
          /\ cache_file.state # "corrupt" =>
                /\ cache_file'.state # "corrupt"
                /\ \A e \in DOMAIN cache_file.data :
                      /\ e \in DOMAIN cache_file'.data
                      /\ cache_file'.data[e] = cache_file.data[e]
          /\ NothingFound(odds_answer') =>
                /\ cache_file' = cache_file
                /\ file_writes' = file_writes ]_vars

\* e1 was fetched and cached; the next call, for e2, asked the odds API,
\* found no matching game and wrote nothing, and e1 is in the file as it was
C30_Witness ==
    /\ odds_calls = 2
    /\ api_calls = 2
    /\ file_writes = 1
    /\ odds_event = "e2"
    /\ odds_answer.kind = "games"
    /\ ~odds_answer.matched
    /\ odds_result = << >>
    /\ cache_file.state = "ok"
    /\ DOMAIN cache_file.data = {"e1"}
    /\ cache_file.data["e1"] = Odds({"spread"}, 1)

====
